---- MODULE Spec2Model ----
(***************************************************************************)
(* Model of the tic-tac-toe agents of src/agents.py: the heuristic agents  *)
(* BaseAgent and TicTacJoe, the search tree Node, and the Monte Carlo Tree *)
(* Search agent TicTacPro (act / select / expand / simulate /              *)
(* backpropogate_score / ucb_score / compute_reward).                      *)
(*                                                                         *)
(* Conventions                                                             *)
(*   - a board is a function 0..8 -> 0..2 (0 empty, 1 "O", 2 "X"), the     *)
(*     tuple of mark codes of gym_tictactoe; a state is <<board, mark>>;   *)
(*   - Python's None is the integer None == -1 (actions and node ids are   *)
(*     naturals);                                                          *)
(*   - rewards and Node.value are kept in HALVES: the Python reward 0.5    *)
(*     is 1, the reward 1 is 2, so that value stays an integer;            *)
(*   - environments are objects on a heap `envs`, named by handles, so     *)
(*     that copying an environment and aliasing it are different things.   *)
(***************************************************************************)
EXTENDS Integers, Sequences, FiniteSets, TLC

VARIABLES
    self_mark,        \* TicTacPro.mark / BaseAgent.mark
    n_iter,           \* TicTacPro.n_iter
    c,                \* TicTacPro.c
    envs,             \* heap of TicTacToeEnv objects: handle -> [board, mark, done]
    my_env,           \* local my_env of act: a handle, or None before the first copy
    NODE_ID_COUNTER,  \* the module-level counter of agents.py
    nodes,            \* the Node objects: id -> [state, action, visits, value, parent, children]
    node,             \* local `node` of act (a node id)
    iter,             \* iterations of the for loop of act completed so far
    state,            \* local `state` of simulate
    reward,           \* local `reward` of act (in halves)
    pc,               \* position in the running call
    ret,              \* value returned by the call (None while there is none)
    err,              \* exception raised by the call ("" while there is none)
    num_games,        \* parameter num_games of play
    play_start_mark,  \* local start_mark of play
    winners,          \* local winners of play
    games,            \* iterations of the for loop of play completed so far
    play_mark,        \* local mark of play
    play_action       \* local action of play

\* the variables of play (run.py)
play_vars ==
    <<num_games, play_start_mark, winners, games, play_mark, play_action>>

vars == <<self_mark, n_iter, c, envs, my_env, NODE_ID_COUNTER, nodes, node,
          iter, state, reward, pc, ret, err, play_vars>>

None == -1

\* play is not running: its variables hold nothing
NoPlay ==
    /\ num_games = 0
    /\ play_start_mark = None
    /\ winners = << >>
    /\ games = 0
    /\ play_mark = None
    /\ play_action = None

Marks == {"X", "O"}

Cells == 0..8

(***************************************************************************)
(* gym_tictactoe.env: the game interface consumed by the agents.           *)
(***************************************************************************)

\* tocode(mark): 1 for "O", 2 for "X"
tocode(mark) == IF mark = "O" THEN 1 ELSE 2

\* tomark(code): CODE_MARK_MAP
tomark(code) == IF code = 1 THEN "O" ELSE IF code = 2 THEN "X" ELSE " "

next_mark(mark) == IF mark = "O" THEN "X" ELSE "O"

\* the eight lines of the board: rows, columns, diagonals
Lines ==
    { {0, 1, 2}, {3, 4, 5}, {6, 7, 8},
      {0, 3, 6}, {1, 4, 7}, {2, 5, 8},
      {0, 4, 8}, {2, 4, 6} }

HasLine(board, t) == \E l \in Lines : \A i \in l : board[i] = t

\* check_game_status(board): -1 in progress, 0 draw, 1 or 2 the winner's code;
\* code 1 is looked for before code 2
check_game_status(board) ==
    IF HasLine(board, 1) THEN 1
    ELSE IF HasLine(board, 2) THEN 2
    ELSE IF \E i \in Cells : board[i] = 0 THEN -1
    ELSE 0

\* after_action_state(state, action): the pure preview of a move
after_action_state(st, action) ==
    << [st[1] EXCEPT ![action] = tocode(st[2])], next_mark(st[2]) >>

\* the increasing sequence of the elements of a set of cells
RECURSIVE SortedSeq(_)
SortedSeq(S) ==
    IF S = {} THEN << >>
    ELSE LET m == CHOOSE x \in S : \A y \in S : x <= y
         IN  << m >> \o SortedSeq(S \ {m})

\* TicTacToeEnv.available_actions(): the empty cells, in increasing order
available_actions(e) == SortedSeq({ i \in Cells : e.board[i] = 0 })

\* TicTacToeEnv._get_obs()
get_obs(e) == << e.board, e.mark >>

\* TicTacToeEnv.step(action), as the new value of the environment object:
\* nothing once done; else place the mover's code, set done on a win or a
\* draw, and switch the turn
step(e, action) ==
    IF e.done THEN e
    ELSE LET nboard == [e.board EXCEPT ![action] = tocode(e.mark)]
         IN  [e EXCEPT !.board = nboard,
                       !.mark  = next_mark(e.mark),
                       !.done  = check_game_status(nboard) >= 0]

\* reading attribute name of an environment object: the exception raised
\* ("" if none) and the value read; TicTacToeEnv sets board, mark and done
\* (self.board, self.mark, self.done) and no attribute called state
env_getattr(e, name) ==
    IF name \in DOMAIN e
    THEN [ err |-> "", val |-> e[name] ]
    ELSE [ err |-> "AttributeError: 'TicTacToeEnv' object has no attribute '"
                   \o name \o "'",
           val |-> None ]


\* the handle of the caller's environment, the parameter `env` of act
env == 1

\* deepcopy replaced by the object itself: my_env = env
deepcopy_alias(heap, h) == [ handle |-> h, heap |-> heap ]

\* copy.deepcopy(env): a fresh environment object with the same board, mark
\* and done flag; the result is the new handle and the heap holding it
deepcopy(heap, h) ==
    LET new == 2
    IN  [ handle |-> new, heap |-> (new :> heap[h]) @@ heap ]

(***************************************************************************)
(* BaseAgent and TicTacJoe                                                 *)
(***************************************************************************)

\* BaseAgent.opponent_mark
opponent_mark == next_mark(self_mark)

\* the loops of lines 39-44, 61-66 and 71-77: the first of the actions after
\* which, played on state st, the game is won by mark; None if there is none
RECURSIVE first_win(_, _, _)
first_win(actions, st, mark) ==
    IF actions = << >> THEN None
    ELSE LET nstate == after_action_state(st, Head(actions))
             gstatus == check_game_status(nstate[1])
         IN  IF gstatus > 0 /\ tomark(gstatus) = mark
             THEN Head(actions)
             ELSE first_win(Tail(actions), st, mark)

\* random.choice(seq): the possible outcomes, each the exception raised ("" if
\* none) and the element returned
random_choice(seq) ==
    IF seq = << >>
    THEN { [ err |-> "IndexError: Cannot choose from an empty sequence", val |-> None ] }
    ELSE { [ err |-> "", val |-> seq[k] ] : k \in 1..Len(seq) }

\* BaseAgent.act(state, my_env) on the environment object e: the possible
\* outcomes; line 40 reads my_env.state in the first turn of the loop
BaseAgent_act(st, e) ==
    LET available == available_actions(e)
        attr == env_getattr(e, "state")
    IN  IF available # << >> /\ attr.err # ""
        THEN { [ err |-> attr.err, val |-> None ] }
        ELSE IF first_win(available, attr.val, self_mark) # None
        THEN { [ err |-> "", val |-> first_win(available, attr.val, self_mark) ] }
        ELSE random_choice(available)

\* TicTacJoe.act(state, my_env) on the environment object e: the possible
\* outcomes
TicTacJoe_act(st, e) ==
    LET available == available_actions(e)
        rev_state == << st[1], next_mark(st[2]) >>
    IN  IF first_win(available, st, self_mark) # None
        THEN { [ err |-> "", val |-> first_win(available, st, self_mark) ] }
        ELSE IF first_win(available, rev_state, opponent_mark) # None
        THEN { [ err |-> "", val |-> first_win(available, rev_state, opponent_mark) ] }
        ELSE random_choice(available)

(***************************************************************************)
(* Node                                                                    *)
(***************************************************************************)

\* Node.__init__ without update_parent_callback: the new node knows its
\* parent, the parent does not get the child
NewNode_unlinked(ns, cnt, st, action, parent) ==
    LET n == [ state    |-> st,
               action   |-> action,
               visits   |-> 0,
               value    |-> 0,
               parent   |-> parent,
               children |-> << >> ]
    IN  (cnt :> n) @@ ns

\* Node.__init__(state, action, parent) on the node table ns with the counter
\* at cnt: the new node gets id cnt, zero statistics and no children, and is
\* appended to its parent's children (update_parent_callback)
NewNode(ns, cnt, st, action, parent) ==
    LET n == [ state    |-> st,
               action   |-> action,
               visits   |-> 0,
               value    |-> 0,
               parent   |-> parent,
               children |-> << >> ]
        linked == IF parent # None
                  THEN [ns EXCEPT ![parent].children = Append(@, cnt)]
                  ELSE ns
    IN  (cnt :> n) @@ linked

\* Node.unvisited
unvisited(n) == n.visits = 0

\* backpropogate_score without the recursion to the parent
backpropogate_score_self_only(ns, id, inc_visits, inc_value) ==
    [ns EXCEPT ![id].visits = @ + inc_visits,
               ![id].value  = @ + inc_value]

\* Node.backpropogate_score(inc_visits, inc_value) called on node id
RECURSIVE backpropogate_score(_, _, _, _)
backpropogate_score(ns, id, inc_visits, inc_value) ==
    LET upd == [ns EXCEPT ![id].visits = @ + inc_visits,
                          ![id].value  = @ + inc_value]
    IN  IF ns[id].parent # None
        THEN backpropogate_score(upd, ns[id].parent, inc_visits, inc_value)
        ELSE upd

(***************************************************************************)
(* TicTacPro                                                               *)
(***************************************************************************)

\* rewards of compute_reward, in halves
RewardWon == 2
RewardTie == 1
RewardLost == 0

\* compute_reward taking the side of the player who just moved in the state
\* instead of the side of the agent
compute_reward_of_mover(st) ==
    LET gstatus == check_game_status(st[1])
    IN  IF gstatus = -1
        THEN [ err |-> "RuntimeError: Error! Compute reward called when game was not finished.",
               val |-> None ]
        ELSE IF gstatus = 0 THEN [ err |-> "", val |-> RewardTie ]
        ELSE IF gstatus = tocode(next_mark(st[2])) THEN [ err |-> "", val |-> RewardWon ]
        ELSE [ err |-> "", val |-> RewardLost ]

\* compute_reward crediting a win as a tie
compute_reward_win_as_tie(st) ==
    LET gstatus == check_game_status(st[1])
    IN  IF gstatus = -1
        THEN [ err |-> "RuntimeError: Error! Compute reward called when game was not finished.",
               val |-> None ]
        ELSE IF gstatus = tocode(self_mark) THEN [ err |-> "", val |-> RewardTie ]
        ELSE IF gstatus = 0 THEN [ err |-> "", val |-> RewardTie ]
        ELSE [ err |-> "", val |-> RewardLost ]

\* compute_reward with the reward of a lost game negative: won 1, tie 0.5,
\* lost -1
compute_reward_signed(st) ==
    LET gstatus == check_game_status(st[1])
    IN  IF gstatus = -1
        THEN [ err |-> "RuntimeError: Error! Compute reward called when game was not finished.",
               val |-> None ]
        ELSE IF gstatus = 0 THEN [ err |-> "", val |-> RewardTie ]
        ELSE IF gstatus = tocode(self_mark) THEN [ err |-> "", val |-> RewardWon ]
        ELSE [ err |-> "", val |-> 0 - RewardWon ]

\* what compute_reward(state) does: the exception it raises ("" if none) and
\* the reward it returns (None if it raises)
compute_reward(st) ==
    LET gstatus == check_game_status(st[1])
    IN  IF gstatus = -1
        THEN [ err |-> "RuntimeError: Error! Compute reward called when game was not finished.",
               val |-> None ]
        ELSE IF gstatus = 0 THEN [ err |-> "", val |-> RewardTie ]
        ELSE IF gstatus = tocode(self_mark) THEN [ err |-> "", val |-> RewardWon ]
        ELSE [ err |-> "", val |-> RewardLost ]

\* round(math.log(n) * 10^6) for n = 1..16
LnMicro ==
    << 0, 693147, 1098612, 1386294, 1609438, 1791759, 1945910, 2079442,
       2197225, 2302585, 2397895, 2484907, 2564949, 2639057, 2708050, 2772589 >>

\* floor of the square root, by bisection on lo <= r < hi
RECURSIVE IsqrtIn(_, _, _)
IsqrtIn(x, lo, hi) ==
    IF hi - lo <= 1 THEN lo
    ELSE LET mid == (lo + hi) \div 2
         IN  IF mid * mid <= x THEN IsqrtIn(x, mid, hi) ELSE IsqrtIn(x, lo, mid)

Isqrt(x) == IsqrtIn(x, 0, 46340)

\* the exception ucb_score(node) raises, "" if none: no parent; division by
\* a zero visit count; math.log of a zero parent visit count
ucb_error(ns, id) ==
    IF ns[id].parent = None
    THEN "RuntimeError: UCB score called for node with no parent."
    ELSE IF ns[id].visits = 0 THEN "ZeroDivisionError: division by zero"
    ELSE IF ns[ns[id].parent].visits <= 0 THEN "ValueError: math domain error"
    ELSE ""

\* ucb_score(node) in units of 10^-4, for a node on which it raises nothing:
\* value / visits + c * sqrt(log(parent.visits) / visits)
ucb_score(ns, id) ==
    LET n == ns[id]
    IN  (n.value * 5000) \div n.visits
        + c * Isqrt((LnMicro[ns[n.parent].visits] * 100) \div n.visits)

\* max(seq, key=...) given the sequence of the keys: the index of the first
\* element whose key no element exceeds
MaxFirst(keys) ==
    CHOOSE i \in 1..Len(keys) :
        /\ \A j \in 1..Len(keys) : keys[j] <= keys[i]
        /\ \A j \in 1..(i - 1)   : keys[j] <  keys[i]

\* select without the unvisited-first rule: no child is ever reported unvisited
univisted_children_none(ns, id) == << >>

\* [c for c in node.children if c.unvisited]
univisted_children(ns, id) ==
    SelectSeq(ns[id].children, LAMBDA k : unvisited(ns[k]))

\* the first exception raised while max(node.children, key=self.ucb_score)
\* evaluates the keys in child order, "" if none
RECURSIVE first_ucb_error(_, _)
first_ucb_error(ns, kids) ==
    IF kids = << >> THEN ""
    ELSE IF ucb_error(ns, Head(kids)) # "" THEN ucb_error(ns, Head(kids))
    ELSE first_ucb_error(ns, Tail(kids))

\* select that does not advance: node stays the current node
select_child_stay(ns, id) == id

\* select descending into the first child whatever its visits
select_child_first(ns, id) == ns[id].children[1]

\* the child select descends into from node id (lines 186-191)
select_child(ns, id) ==
    IF univisted_children(ns, id) # << >>
    THEN univisted_children(ns, id)[1]
    ELSE LET kids == ns[id].children
         IN  kids[MaxFirst([i \in 1..Len(kids) |-> ucb_score(ns, kids[i])])]

\* expansion one child at a time: only the first action gets a child
add_children_first_only(ns, cnt, id, actions) ==
    IF actions = << >> THEN ns
    ELSE NewNode(ns, cnt, after_action_state(ns[id].state, Head(actions)),
                 Head(actions), id)

\* the for loop of expand (lines 208-210): one new child per action, in order
RECURSIVE add_children(_, _, _, _)
add_children(ns, cnt, id, actions) ==
    IF actions = << >> THEN ns
    ELSE add_children(
             NewNode(ns, cnt, after_action_state(ns[id].state, Head(actions)),
                     Head(actions), id),
             cnt + 1, id, Tail(actions))

\* expand without the check of my_env.done
expand_unchecked(ns, cnt, id, e) ==
    LET actions == available_actions(e)
        grown == add_children(ns, cnt, id, actions)
    IN  IF grown[id].children # << >>
        THEN { [ nodes   |-> grown,
                 counter |-> cnt + Len(actions),
                 node    |-> grown[id].children[k],
                 env     |-> step(e, grown[grown[id].children[k]].action) ]
               : k \in 1..Len(grown[id].children) }
        ELSE { [ nodes |-> grown, counter |-> cnt + Len(actions),
                 node |-> id, env |-> e ] }

\* expand choosing a child without stepping the environment by its action
expand_without_step(ns, cnt, id, e) ==
    IF e.done
    THEN { [ nodes |-> ns, counter |-> cnt, node |-> id, env |-> e ] }
    ELSE LET actions == available_actions(e)
             grown == add_children(ns, cnt, id, actions)
         IN  IF grown[id].children # << >>
             THEN { [ nodes   |-> grown,
                      counter |-> cnt + Len(actions),
                      node    |-> grown[id].children[k],
                      env     |-> e ]
                    : k \in 1..Len(grown[id].children) }
             ELSE { [ nodes |-> grown, counter |-> cnt + Len(actions),
                      node |-> id, env |-> e ] }

\* expand(node, my_env) on node id and environment e: the possible outcomes,
\* one per value random.choice can return; each is the node table, the
\* counter, the node returned and the environment as expand leaves it
expand(ns, cnt, id, e) ==
    IF e.done
    THEN { [ nodes |-> ns, counter |-> cnt, node |-> id, env |-> e ] }
    ELSE LET actions == available_actions(e)
             grown == add_children(ns, cnt, id, actions)
         IN  IF grown[id].children # << >>
             THEN { [ nodes   |-> grown,
                      counter |-> cnt + Len(actions),
                      node    |-> grown[id].children[k],
                      env     |-> step(e, grown[grown[id].children[k]].action) ]
                    : k \in 1..Len(grown[id].children) }
             ELSE { [ nodes |-> grown, counter |-> cnt + Len(actions),
                      node |-> id, env |-> e ] }

\* the last, not the first, of the most visited root children
best_child_last(ns) ==
    LET kids == ns[0].children
        i == CHOOSE i \in 1..Len(kids) :
                 /\ \A j \in 1..Len(kids) : ns[kids[j]].visits <= ns[kids[i]].visits
                 /\ \A j \in (i + 1)..Len(kids) : ns[kids[j]].visits < ns[kids[i]].visits
    IN  kids[i]

\* max(root_node.children, key=lambda x: x.visits)
best_child(ns) ==
    LET kids == ns[0].children
    IN  kids[MaxFirst([i \in 1..Len(kids) |-> ns[kids[i]].visits])]

\* act guarding the empty list by returning None instead of raising
act_result_silent(ns) ==
    IF ns[0].children = << >>
    THEN [ err |-> "", val |-> None ]
    ELSE [ err |-> "", val |-> ns[best_child(ns)].action ]

\* lines 172-174: what act ends with: the exception raised ("" if none) and
\* the action returned (None if it raises); max of an empty list raises
act_result(ns) ==
    IF ns[0].children = << >>
    THEN [ err |-> "ValueError: max() arg is an empty sequence", val |-> None ]
    ELSE [ err |-> "", val |-> ns[best_child(ns)].action ]


(***************************************************************************)
(* Bounds and inputs                                                       *)
(***************************************************************************)

\* largest n_iter an agent is constructed with
MaxIter == 6

\* confidence constants an agent is constructed with (the default is 50)
CSet == {1, 50}

\* a board from the tuple of its nine codes
Board(t) == [i \in Cells |-> t[i + 1]]

\* positions act is called on, each <<board, mark to move>>, all reachable by
\* play from the empty board:
\*   X O X / O . X / . O .   X to move: 8 wins at once, 4 makes a double threat
\*   X O X / O O X / . X .   O to move: two empty cells, every game a draw or
\*                           a win for X
\*   X O X / X O O / . . X   O to move: 7, the second empty cell, wins at once
\*   X X X / O O . / . . .   won by X, O to move
\*   X O X / X O O / O X X   full board, a draw, O to move
\*   X O X / O . . / . . X   O to move, four empty cells
StartStates ==
    { << Board(<<2, 1, 2, 1, 0, 2, 0, 1, 0>>), "X" >>,
      << Board(<<2, 1, 2, 1, 1, 2, 0, 2, 0>>), "O" >>,
      << Board(<<2, 1, 2, 2, 1, 1, 0, 0, 2>>), "O" >>,
      << Board(<<2, 2, 2, 1, 1, 0, 0, 0, 0>>), "O" >>,
      << Board(<<2, 1, 2, 2, 1, 1, 1, 2, 2>>), "O" >>,
      << Board(<<2, 1, 2, 1, 0, 0, 0, 0, 2>>), "O" >> }

NoState == << >>

(***************************************************************************)
(* TicTacPro.act, step by step                                             *)
(***************************************************************************)

\* line 149: act(starting_state, env) is called on a freshly constructed agent
\* with the state of env as starting_state
Init ==
    /\ \E st \in StartStates :
           envs = (env :> [ board |-> st[1], mark |-> st[2],
                            done  |-> check_game_status(st[1]) >= 0 ])
    /\ self_mark \in Marks
    /\ n_iter \in 0..MaxIter
    /\ c \in CSet
    /\ NODE_ID_COUNTER \in {0, 3}
    /\ nodes = << >>
    /\ my_env = None
    /\ node = None
    /\ iter = 0
    /\ state = NoState
    /\ reward = None
    /\ pc = "act"
    /\ ret = None
    /\ err = ""
    /\ NoPlay

\* lines 155-158: reset the counter and create the root
ActBegin ==
    /\ pc = "act"
    /\ nodes' = NewNode(<< >>, 0, get_obs(envs[env]), None, None)
    /\ NODE_ID_COUNTER' = 1
    /\ pc' = "loop"
    /\ UNCHANGED <<self_mark, n_iter, c, envs, my_env, node, iter, state,
                   reward, ret, err>>
    /\ UNCHANGED play_vars

\* lines 160-163: one more iteration: copy the environment, select from the root
LoopNext ==
    /\ pc = "loop"
    /\ iter < n_iter
    /\ LET cp == deepcopy(envs, env)
       IN  /\ envs' = cp.heap
           /\ my_env' = cp.handle
    /\ node' = 0
    /\ pc' = "select"
    /\ UNCHANGED <<self_mark, n_iter, c, NODE_ID_COUNTER, nodes, iter, state,
                   reward, ret, err>>
    /\ UNCHANGED play_vars

\* lines 184-193: one turn of the while loop of select
Select ==
    /\ pc = "select"
    /\ nodes[node].children # << >>
    /\ IF /\ univisted_children(nodes, node) = << >>
          /\ first_ucb_error(nodes, nodes[node].children) # ""
       THEN /\ err' = first_ucb_error(nodes, nodes[node].children)
            /\ pc' = "raised"
            /\ UNCHANGED <<node, envs>>
       ELSE LET nxt == select_child(nodes, node)
            IN  /\ node' = nxt
                /\ envs' = [envs EXCEPT ![my_env] = step(@, nodes[nxt].action)]
                /\ UNCHANGED <<pc, err>>
    /\ UNCHANGED <<self_mark, n_iter, c, my_env, NODE_ID_COUNTER, nodes, iter,
                   state, reward, ret>>
    /\ UNCHANGED play_vars

\* line 194: select returns at a node without children
SelectReturn ==
    /\ pc = "select"
    /\ nodes[node].children = << >>
    /\ pc' = "expand"
    /\ UNCHANGED <<self_mark, n_iter, c, envs, my_env, NODE_ID_COUNTER, nodes,
                   node, iter, state, reward, ret, err>>
    /\ UNCHANGED play_vars

\* lines 203-217: expand; random.choice picks any of the children
Expand ==
    /\ pc = "expand"
    /\ \E r \in expand(nodes, NODE_ID_COUNTER, node, envs[my_env]) :
           /\ nodes' = r.nodes
           /\ NODE_ID_COUNTER' = r.counter
           /\ node' = r.node
           /\ envs' = [envs EXCEPT ![my_env] = r.env]
    /\ pc' = "simulate"
    /\ UNCHANGED <<self_mark, n_iter, c, my_env, iter, state, reward, ret, err>>
    /\ UNCHANGED play_vars

\* simulate starting from the state act was called with instead of the state
\* of the node: state = starting_state
Simulate_from_root ==
    /\ pc = "simulate"
    /\ state' = nodes[0].state
    /\ pc' = "rollout"
    /\ UNCHANGED <<self_mark, n_iter, c, envs, my_env, NODE_ID_COUNTER, nodes,
                   node, iter, reward, ret, err>>
    /\ UNCHANGED play_vars

\* line 226: simulate starts from the state of the node
Simulate ==
    /\ pc = "simulate"
    /\ state' = nodes[node].state
    /\ pc' = "rollout"
    /\ UNCHANGED <<self_mark, n_iter, c, envs, my_env, NODE_ID_COUNTER, nodes,
                   node, iter, reward, ret, err>>
    /\ UNCHANGED play_vars

\* lines 227-229: one random move of the rollout; random.choice of an empty
\* list raises IndexError
Rollout ==
    /\ pc = "rollout"
    /\ ~ envs[my_env].done
    /\ LET actions == available_actions(envs[my_env])
       IN  IF actions = << >>
           THEN /\ err' = "IndexError: Cannot choose from an empty sequence"
                /\ pc' = "raised"
                /\ UNCHANGED <<envs, state>>
           ELSE \E k \in 1..Len(actions) :
                    LET e == step(envs[my_env], actions[k])
                    IN  /\ envs' = [envs EXCEPT ![my_env] = e]
                        /\ state' = get_obs(e)
                        /\ UNCHANGED <<pc, err>>
    /\ UNCHANGED <<self_mark, n_iter, c, my_env, NODE_ID_COUNTER, nodes, node,
                   iter, reward, ret>>
    /\ UNCHANGED play_vars

\* lines 230 and 167: the rollout is over, the reward is computed
RolloutEnd ==
    /\ pc = "rollout"
    /\ envs[my_env].done
    /\ LET r == compute_reward(state)
       IN  IF r.err # ""
           THEN /\ err' = r.err
                /\ pc' = "raised"
                /\ UNCHANGED reward
           ELSE /\ reward' = r.val
                /\ pc' = "backprop"
                /\ UNCHANGED err
    /\ UNCHANGED <<self_mark, n_iter, c, envs, my_env, NODE_ID_COUNTER, nodes,
                   node, iter, state, ret>>
    /\ UNCHANGED play_vars

\* line 169: backpropagation, the end of the iteration
Backprop ==
    /\ pc = "backprop"
    /\ nodes' = backpropogate_score(nodes, node, 1, reward)
    /\ iter' = iter + 1
    /\ pc' = "loop"
    /\ UNCHANGED <<self_mark, n_iter, c, envs, my_env, NODE_ID_COUNTER, node,
                   state, reward, ret, err>>
    /\ UNCHANGED play_vars

\* lines 171-174: all iterations done, act returns or raises
Best ==
    /\ pc = "loop"
    /\ iter >= n_iter
    /\ LET r == act_result(nodes)
       IN  /\ err' = r.err
           /\ ret' = r.val
           /\ pc' = IF r.err # "" THEN "raised" ELSE "done"
    /\ UNCHANGED <<self_mark, n_iter, c, envs, my_env, NODE_ID_COUNTER, nodes,
                   node, iter, state, reward>>
    /\ UNCHANGED play_vars

Next ==
    \/ ActBegin
    \/ LoopNext
    \/ Select
    \/ SelectReturn
    \/ Expand
    \/ Simulate
    \/ Rollout
    \/ RolloutEnd
    \/ Backprop
    \/ Best

Spec == Init /\ [][Next]_vars

\* act runs to its end: the interpreter always takes the next step of the call
FairSpec ==
    Spec /\ WF_vars(Simulate) /\ WF_vars(Rollout) /\ WF_vars(RolloutEnd)


(***************************************************************************)
(* Node on its own: trees built by the constructor, in any shape, with     *)
(* backpropogate_score called on any node (specification SpecNode)         *)
(***************************************************************************)

\* most nodes constructed
MaxNodes == 4

\* most calls of backpropogate_score
MaxCalls == 2

\* the action given to the constructor for the next child of parent: the
\* first empty cell of the parent's board that no child of it has yet
NextAction(ns, parent) ==
    LET free == { a \in Cells :
                    /\ ns[parent].state[1][a] = 0
                    /\ \A i \in 1..Len(ns[parent].children) :
                           ns[ns[parent].children[i]].action # a }
    IN  CHOOSE a \in free : \A b \in free : a <= b

EmptyState == << [i \in Cells |-> 0], "X" >>

InitNode ==
    /\ nodes = << >>
    /\ NODE_ID_COUNTER = 0
    /\ node = None
    /\ reward = None
    /\ iter = 0
    /\ pc = "module"
    /\ self_mark = "X"
    /\ n_iter = 0
    /\ c = 50
    /\ envs = (env :> [ board |-> EmptyState[1], mark |-> "X", done |-> FALSE ])
    /\ my_env = None
    /\ state = NoState
    /\ ret = None
    /\ err = ""
    /\ NoPlay

\* Node(state, action=None, parent=None): a new root
NodeRoot ==
    /\ NODE_ID_COUNTER < MaxNodes
    /\ nodes' = NewNode(nodes, NODE_ID_COUNTER, EmptyState, None, None)
    /\ NODE_ID_COUNTER' = NODE_ID_COUNTER + 1
    /\ pc' = "Node"
    /\ UNCHANGED <<self_mark, n_iter, c, envs, my_env, node, iter, state,
                   reward, ret, err>>
    /\ UNCHANGED play_vars

\* Node(after_action_state(parent.state, action), action, parent)
NodeChild ==
    /\ NODE_ID_COUNTER < MaxNodes
    /\ \E parent \in DOMAIN nodes :
           LET action == NextAction(nodes, parent)
           IN  nodes' = NewNode(nodes, NODE_ID_COUNTER,
                                after_action_state(nodes[parent].state, action),
                                action, parent)
    /\ NODE_ID_COUNTER' = NODE_ID_COUNTER + 1
    /\ pc' = "Node"
    /\ UNCHANGED <<self_mark, n_iter, c, envs, my_env, node, iter, state,
                   reward, ret, err>>
    /\ UNCHANGED play_vars

\* n.backpropogate_score(1, r) for any node n and any reward r; node and
\* reward record the receiver and the reward of the call
NodeBackprop ==
    /\ iter < MaxCalls
    /\ \E n \in DOMAIN nodes, r \in {RewardLost, RewardTie, RewardWon} :
           /\ nodes' = backpropogate_score(nodes, n, 1, r)
           /\ node' = n
           /\ reward' = r
    /\ iter' = iter + 1
    /\ pc' = "backpropogate_score"
    /\ UNCHANGED <<self_mark, n_iter, c, envs, my_env, NODE_ID_COUNTER, state,
                   ret, err>>
    /\ UNCHANGED play_vars

NextNode ==
    \/ NodeRoot
    \/ NodeChild
    \/ NodeBackprop

SpecNode == InitNode /\ [][NextNode]_vars

(***************************************************************************)
(* The agents and compute_reward called on the positions of play           *)
(* (specification SpecAgents)                                              *)
(***************************************************************************)

\* TicTacToeEnv() with its start mark set, after reset(); an agent of either
\* mark
InitAgents ==
    /\ \E start_mark \in Marks :
           envs = (env :> [ board |-> EmptyState[1], mark |-> start_mark,
                            done  |-> FALSE ])
    /\ self_mark \in Marks
    /\ pc = "play"
    /\ state = NoState
    /\ ret = None
    /\ err = ""
    /\ n_iter = 0
    /\ c = 50
    /\ my_env = None
    /\ NODE_ID_COUNTER = 0
    /\ nodes = << >>
    /\ node = None
    /\ iter = 0
    /\ reward = None
    /\ NoPlay

\* env.step(action) with any available action: play goes on
PlayStep ==
    /\ pc = "play"
    /\ ~ envs[env].done
    /\ \E k \in 1..Len(available_actions(envs[env])) :
           envs' = [envs EXCEPT ![env] = step(@, available_actions(@)[k])]
    /\ UNCHANGED <<self_mark, n_iter, c, my_env, NODE_ID_COUNTER, nodes, node,
                   iter, state, reward, pc, ret, err>>
    /\ UNCHANGED play_vars

\* compute_reward(state) on the board of the environment, with either mark as
\* the mark to move of the state
CallComputeReward ==
    /\ pc = "play"
    /\ \E mark \in Marks :
           LET st == << envs[env].board, mark >>
               r == compute_reward(st)
           IN  /\ state' = st
               /\ err' = r.err
               /\ ret' = r.val
    /\ pc' = "compute_reward"
    /\ UNCHANGED <<self_mark, n_iter, c, envs, my_env, NODE_ID_COUNTER, nodes,
                   node, iter, reward>>
    /\ UNCHANGED play_vars

\* BaseAgent(self_mark).act(state, env) with the state of the environment
CallBaseAgent ==
    /\ pc = "play"
    /\ state' = get_obs(envs[env])
    /\ \E r \in BaseAgent_act(get_obs(envs[env]), envs[env]) :
           /\ err' = r.err
           /\ ret' = r.val
    /\ pc' = "BaseAgent.act"
    /\ UNCHANGED <<self_mark, n_iter, c, envs, my_env, NODE_ID_COUNTER, nodes,
                   node, iter, reward>>
    /\ UNCHANGED play_vars

\* TicTacJoe(self_mark).act(state, env) with the state of the environment
CallTicTacJoe ==
    /\ pc = "play"
    /\ state' = get_obs(envs[env])
    /\ \E r \in TicTacJoe_act(get_obs(envs[env]), envs[env]) :
           /\ err' = r.err
           /\ ret' = r.val
    /\ pc' = "TicTacJoe.act"
    /\ UNCHANGED <<self_mark, n_iter, c, envs, my_env, NODE_ID_COUNTER, nodes,
                   node, iter, reward>>
    /\ UNCHANGED play_vars

NextAgents ==
    \/ PlayStep
    \/ CallComputeReward
    \/ CallBaseAgent
    \/ CallTicTacJoe

SpecAgents == InitAgents /\ [][NextAgents]_vars

(***************************************************************************)
(* Notions the properties are stated with                                  *)
(***************************************************************************)

EmptyCells(board) == { i \in Cells : board[i] = 0 }

\* a win for either mark or a full board
Terminal(board) ==
    \/ \E t \in {1, 2} : \E l \in Lines : \A i \in l : board[i] = t
    \/ \A i \in Cells : board[i] # 0

\* the board with the code of mark placed on cell a
Place(board, a, mark) ==
    [i \in Cells |-> IF i = a THEN (IF mark = "O" THEN 1 ELSE 2) ELSE board[i]]

OtherMark(mark) == IF mark = "X" THEN "O" ELSE "X"

\* the empty cells on which mark completes a line at once
WinningCells(board, mark) ==
    { a \in EmptyCells(board) :
        \E l \in Lines : \A i \in l : Place(board, a, mark)[i] = Place(board, a, mark)[a] }

\* the children of node n enumerate the legal actions of its state: one child
\* per empty cell, in increasing order of the cells, each child linked to n and
\* holding the state reached by its action
EnumeratesLegalActions(ns, n) ==
    LET kids == ns[n].children
        board == ns[n].state[1]
        mark == ns[n].state[2]
    IN  /\ Len(kids) = Cardinality(EmptyCells(board))
        /\ \A i \in 1..Len(kids) :
               /\ kids[i] \in DOMAIN ns
               /\ ns[kids[i]].parent = n
               /\ ns[kids[i]].action \in EmptyCells(board)
               /\ ns[kids[i]].state = << Place(board, ns[kids[i]].action, mark),
                                         OtherMark(mark) >>
        /\ \A i, j \in 1..Len(kids) :
               i < j => ns[kids[i]].action < ns[kids[j]].action

\* the position act was called on: the root holds starting_state
StartBoard == nodes[0].state[1]
StartMark == nodes[0].state[2]

(***************************************************************************)
(* Properties of TicTacPro.act (specification Spec)                        *)
(***************************************************************************)

C2_ChildrenComplete ==
    \A n \in DOMAIN nodes :
        nodes[n].children = << >> \/ EnumeratesLegalActions(nodes, n)

C2_ExpandStep ==
    (pc = "expand" /\ pc' = "simulate" /\ ~ envs[my_env].done)
        => /\ nodes[node].children = << >>
           /\ nodes'[node].children # << >>
           /\ EnumeratesLegalActions(nodes', node)
           /\ nodes[node].state[1] = envs[my_env].board

\* C2 (expansion completeness): expand on a childless node whose environment
\* copy is not done leaves the node with exactly one child per legal action of
\* its state, in the order of the actions and without duplicates, each child
\* holding after_action_state(node.state, child.action); and in every
\* reachable state every node has no children or children enumerating all the
\* legal actions of its state.
C2_ExpansionCompleteness == [] C2_ChildrenComplete /\ [][C2_ExpandStep]_vars

\* a node with children, one of which is itself expanded
C2_Witness ==
    \E n \in DOMAIN nodes :
        /\ Len(nodes[n].children) >= 3
        /\ \E i \in 1..Len(nodes[n].children) :
               nodes[nodes[n].children[i]].children # << >>

C3_TerminalChildless ==
    \A n \in DOMAIN nodes : Terminal(nodes[n].state[1]) => nodes[n].children = << >>

C3_ExpandStep ==
    (pc = "expand" /\ pc' = "simulate" /\ envs[my_env].done)
        => /\ node' = node
           /\ nodes' = nodes
           /\ NODE_ID_COUNTER' = NODE_ID_COUNTER
           /\ envs' = envs

\* C3 (terminal no-op): expand on a node whose environment copy is done
\* returns the same node, creates no node and leaves the environment copy
\* unchanged; and in every reachable state a node whose state is terminal (a
\* win or a full board) has no children.
C3_TerminalNoOp == [] C3_TerminalChildless /\ [][C3_ExpandStep]_vars

\* expand has just returned a terminal node that was visited before, below
\* the root
C3_Witness ==
    /\ pc = "simulate"
    /\ node # 0
    /\ envs[my_env].done
    /\ Terminal(nodes[node].state[1])
    /\ nodes[node].visits >= 1

C5_EnvUntouched == envs'[env] = envs[env]

C5_FreshCopy ==
    (pc = "loop" /\ pc' = "select")
        => /\ my_env' # env
           /\ envs'[my_env'] = envs[env]

\* C5 (environment isolation): no step of act changes the caller's
\* environment (board, mark to move, done flag), and every iteration starts
\* select from a copy equal to the caller's environment, whatever earlier
\* iterations did to their copies.
C5_EnvironmentIsolation == [][C5_EnvUntouched /\ C5_FreshCopy]_vars

\* a later iteration starts after an earlier one played on its copy
C5_Witness ==
    /\ pc = "select"
    /\ node = 0
    /\ iter >= 1
    /\ Cardinality(DOMAIN nodes) >= 2
    /\ envs[my_env] = envs[env]

\* C6 (final move selection): act called on a non-terminal state with
\* n_iter >= 1 ends by returning, not raising, and what it returns is the
\* action of the first root child, in child order, whose visits no root child
\* exceeds; that action is an empty cell of the starting board.
C6_FinalMoveSelection ==
    (pc \in {"done", "raised"} /\ ~ Terminal(StartBoard) /\ n_iter >= 1)
        => /\ pc = "done"
           /\ err = ""
           /\ ret \in EmptyCells(StartBoard)
           /\ ret \in EmptyCells(envs[env].board)
           /\ \E i \in 1..Len(nodes[0].children) :
                  /\ ret = nodes[nodes[0].children[i]].action
                  /\ \A j \in 1..Len(nodes[0].children) :
                         nodes[nodes[0].children[j]].visits
                             <= nodes[nodes[0].children[i]].visits
                  /\ \A j \in 1..(i - 1) :
                         nodes[nodes[0].children[j]].visits
                             < nodes[nodes[0].children[i]].visits

\* act has returned with two root children tied on the greatest visits
C6_Witness ==
    /\ pc = "done"
    /\ n_iter >= 1
    /\ \E i, j \in 1..Len(nodes[0].children) :
           /\ i < j
           /\ nodes[nodes[0].children[i]].visits = nodes[nodes[0].children[j]].visits
           /\ ret = nodes[nodes[0].children[i]].action
           /\ nodes[nodes[0].children[i]].visits >= 2

UcbErrors ==
    { "RuntimeError: UCB score called for node with no parent.",
      "ZeroDivisionError: division by zero",
      "ValueError: math domain error" }

\* select is about to take the maximum of ucb_score over the children of node
EvaluatesUcb ==
    /\ pc = "select"
    /\ nodes[node].children # << >>
    /\ univisted_children(nodes, node) = << >>

\* C10 (UCB preconditions): whenever select evaluates ucb_score on a child,
\* the child has a parent, its visits is at least 1 and its parent's visits is
\* at least 1, and act never ends with the no-parent error, a division by
\* zero or a logarithm of zero.
C10_UcbPreconditions ==
    /\ err \notin UcbErrors
    /\ EvaluatesUcb =>
           \A i \in 1..Len(nodes[node].children) :
               LET k == nodes[node].children[i]
               IN  /\ nodes[k].parent = node
                   /\ nodes[k].visits >= 1
                   /\ nodes[node].visits >= 1

\* select evaluates ucb_score below the root
C10_Witness ==
    /\ EvaluatesUcb
    /\ node # 0


\* the root children whose action wins at once for the agent
WinningChildren ==
    { k \in DOMAIN nodes :
        /\ nodes[k].parent = 0
        /\ nodes[k].action \in WinningCells(StartBoard, self_mark) }

LosingChildren ==
    { k \in DOMAIN nodes :
        /\ nodes[k].parent = 0
        /\ nodes[k].action \notin WinningCells(StartBoard, self_mark) }

RECURSIVE OnPathToRoot(_, _, _)
OnPathToRoot(ns, n, a) ==
    \/ a = n
    \/ ns[n].parent # None /\ OnPathToRoot(ns, ns[n].parent, a)

C1_Step ==
    (pc' = "backpropogate_score" /\ iter' = iter + 1)
        => /\ DOMAIN nodes' = DOMAIN nodes
           /\ \A m \in DOMAIN nodes :
                  IF OnPathToRoot(nodes, node', m)
                  THEN /\ nodes'[m].visits = nodes[m].visits + 1
                       /\ nodes'[m].value = nodes[m].value + reward'
                       /\ nodes'[m].parent = nodes[m].parent
                       /\ nodes'[m].children = nodes[m].children
                       /\ nodes'[m].state = nodes[m].state
                       /\ nodes'[m].action = nodes[m].action
                  ELSE nodes'[m] = nodes[m]

\* C1 (backpropagation conservation): one call N.backpropogate_score(1, r)
\* adds exactly 1 to visits and exactly r to value on N and on every ancestor
\* of N up to the root, and leaves visits, value, parent, children, state and
\* action of every other node (siblings, descendants of N, other trees)
\* unchanged.
C1_BackpropagationConservation == [][C1_Step]_vars

\* the call was made on a node that has a parent, a sibling and a child, with
\* a reward that is not zero
C1_Witness ==
    /\ pc = "backpropogate_score"
    /\ reward # 0
    /\ nodes[node].parent # None
    /\ nodes[node].children # << >>
    /\ Len(nodes[nodes[node].parent].children) >= 2
    /\ nodes[nodes[node].parent].visits >= 2


(***************************************************************************)
(* Properties of compute_reward and of the heuristic agents                *)
(* (specification SpecAgents)                                              *)
(***************************************************************************)

\* mark has three in a row on the board
Won(board, mark) ==
    \E l \in Lines : \A i \in l : board[i] = (IF mark = "O" THEN 1 ELSE 2)

\* C4 (reward model): compute_reward returns 1 when the winner of the board is
\* the agent's mark, 0.5 when the board is a tie, 0 when the opponent has won,
\* and raises, returning nothing, when the board is not terminal; it returns
\* nothing outside {0, 0.5, 1} (here 0, 1, 2 halves), and the mark to move of
\* the state has no part in the result.
C4_RewardModel ==
    pc = "compute_reward" =>
        LET board == state[1]
        IN  /\ ~ Terminal(board) => (err # "" /\ ret = None)
            /\ Terminal(board) =>
                   /\ err = ""
                   /\ ret \in {0, 1, 2}
                   /\ Won(board, self_mark) => ret = 2
                   /\ Won(board, OtherMark(self_mark)) => ret = 0
                   /\ (~ Won(board, "X") /\ ~ Won(board, "O")) => ret = 1

\* the reward of a won game asked for with the agent's own mark as the mark
\* to move
C4_Witness ==
    /\ pc = "compute_reward"
    /\ ret = 2
    /\ state[2] = self_mark
    /\ Won(state[1], self_mark)

\* the call was made on a board in play with the agent to move
AgentsTurn ==
    /\ ~ Terminal(state[1])
    /\ state[2] = self_mark

\* (1) of C9: a legal action, and a winning one when there is one
ReturnsWinIfAny ==
    /\ err = ""
    /\ ret \in EmptyCells(state[1])
    /\ WinningCells(state[1], self_mark) # {}
           => ret \in WinningCells(state[1], self_mark)

\* (2) of C9: a blocking action when no action wins and the opponent threatens
ReturnsBlockIfAny ==
    (/\ WinningCells(state[1], self_mark) = {}
     /\ WinningCells(state[1], OtherMark(self_mark)) # {})
        => ret \in WinningCells(state[1], OtherMark(self_mark))

\* C9 (heuristic agents): on every non-terminal board with the agent to move,
\* TicTacJoe.act returns a legal action, a winning one if there is one, else a
\* blocking one if the opponent has a winning cell; BaseAgent.act returns a
\* legal action, a winning one if there is one.
C9_HeuristicAgents ==
    /\ (pc = "TicTacJoe.act" /\ AgentsTurn) => (ReturnsWinIfAny /\ ReturnsBlockIfAny)
    /\ (pc = "BaseAgent.act" /\ AgentsTurn) => ReturnsWinIfAny

\* the part of C9 about TicTacJoe alone
C9_TicTacJoe ==
    (pc = "TicTacJoe.act" /\ AgentsTurn) => (ReturnsWinIfAny /\ ReturnsBlockIfAny)

\* TicTacJoe has blocked
C9_TicTacJoeBlocks ==
    /\ pc = "TicTacJoe.act"
    /\ AgentsTurn
    /\ WinningCells(state[1], self_mark) = {}
    /\ ret \in WinningCells(state[1], OtherMark(self_mark))


(***************************************************************************)
(* Accounting, synchronisation and shape of the tree of TicTacPro.act      *)
(* (specification Spec)                                                    *)
(***************************************************************************)

\* the sum of the visits of the nodes of a sequence of node ids
RECURSIVE SumVisits(_, _)
SumVisits(ns, kids) ==
    IF kids = << >> THEN 0
    ELSE ns[Head(kids)].visits + SumVisits(ns, Tail(kids))

C11_Accounting ==
    pc # "act" =>
        /\ nodes[0].visits = iter
        /\ ~ Terminal(StartBoard) => SumVisits(nodes, nodes[0].children) = iter
        /\ (~ Terminal(StartBoard) /\ iter >= 1) => nodes[0].children # << >>
        /\ pc = "done" => nodes[0].visits = n_iter
        /\ \A n \in DOMAIN nodes \ {0} :
               nodes[n].children # << >> =>
                   \/ SumVisits(nodes, nodes[n].children) = nodes[n].visits
                   \/ SumVisits(nodes, nodes[n].children) = nodes[n].visits - 1

C11_Step ==
    /\ pc = "backprop" =>
           /\ iter' = iter + 1
           /\ pc' = "loop"
           /\ DOMAIN nodes' = DOMAIN nodes
           /\ OnPathToRoot(nodes, node, 0)
           /\ \A m \in DOMAIN nodes :
                  nodes'[m].visits =
                      IF OnPathToRoot(nodes, node, m)
                      THEN nodes[m].visits + 1
                      ELSE nodes[m].visits
    /\ pc # "backprop" =>
           /\ iter' = iter
           /\ \A m \in DOMAIN nodes : nodes'[m].visits = nodes[m].visits
           /\ (pc \notin {"act", "loop"}) => pc' # "loop"

\* C11 (visit accounting): the root's visits is the number of completed
\* iterations, and on a non-terminal starting state so is the sum of the
\* visits of the root's children (so root.visits = n_iter when act returns);
\* for every non-root node with children the sum of its children's visits is
\* its visits or one less; an iteration ends by one backpropagation and by
\* nothing else, and that step adds one visit to exactly the nodes on the
\* parent path from the node reached up to the root.
C11_VisitAccounting == [] C11_Accounting /\ [][C11_Step]_vars

\* act has returned leaving a node below the root whose children's visits sum
\* to its visits, and another whose children's visits sum to one less
C11_Witness ==
    /\ pc = "done"
    /\ n_iter >= 4
    /\ \E n, m \in DOMAIN nodes \ {0} :
           /\ nodes[n].children # << >>
           /\ nodes[m].children # << >>
           /\ SumVisits(nodes, nodes[n].children) = nodes[n].visits
           /\ SumVisits(nodes, nodes[m].children) = nodes[m].visits - 1

\* the actions on the path from the root to node n, in order
RECURSIVE PathActions(_, _)
PathActions(ns, n) ==
    IF ns[n].parent = None THEN << >>
    ELSE Append(PathActions(ns, ns[n].parent), ns[n].action)

\* the environment object e after step has been called with each action of a
\* sequence, in order
RECURSIVE Replay(_, _)
Replay(e, actions) ==
    IF actions = << >> THEN e
    ELSE Replay(step(e, Head(actions)), Tail(actions))

\* select or expand has returned node and my_env
Returned == pc \in {"expand", "simulate"}

\* C12 (environment/node synchronisation): on return from select and on
\* return from expand the environment copy's board and mark to move are the
\* returned node's state, its done flag is true exactly when that state is
\* terminal, and the copy is the caller's environment stepped by exactly the
\* actions on the path from the root to the returned node, in order, each of
\* them played on an empty cell while the game was not over.
C12_EnvNodeSync ==
    Returned =>
        /\ get_obs(envs[my_env]) = nodes[node].state
        /\ envs[my_env].done <=> Terminal(nodes[node].state[1])
        /\ envs[my_env] = Replay(envs[env], PathActions(nodes, node))
        /\ Cardinality(EmptyCells(envs[my_env].board))
               = Cardinality(EmptyCells(envs[env].board))
                 - Len(PathActions(nodes, node))

\* expand has returned a terminal node two or more levels below the root,
\* reached through select in a later iteration
C12_Witness ==
    /\ pc = "simulate"
    /\ iter >= 2
    /\ Len(PathActions(nodes, node)) >= 2
    /\ nodes[node].visits >= 1
    /\ envs[my_env].done
    /\ get_obs(envs[my_env]) = nodes[node].state

\* one turn of the loop of select that descends
SelectDescends ==
    /\ pc = "select"
    /\ nodes[node].children # << >>
    /\ pc' = "select"

C13_SelectStep ==
    SelectDescends =>
        LET kids == nodes[node].children
        IN  IF \E i \in 1..Len(kids) : nodes[kids[i]].visits = 0
            THEN \E i \in 1..Len(kids) :
                     /\ node' = kids[i]
                     /\ nodes[kids[i]].visits = 0
                     /\ \A j \in 1..(i - 1) : nodes[kids[j]].visits > 0
            ELSE \E i \in 1..Len(kids) :
                     /\ node' = kids[i]
                     /\ \A j \in 1..Len(kids) :
                            ucb_score(nodes, kids[j]) <= ucb_score(nodes, kids[i])
                     /\ \A j \in 1..(i - 1) :
                            ucb_score(nodes, kids[j]) < ucb_score(nodes, kids[i])

C13_Ordering ==
    pc # "act" =>
        \A n \in DOMAIN nodes :
            LET kids == nodes[n].children
                passes == SumVisits(nodes, kids)
            IN  /\ (\E i \in 1..Len(kids) : nodes[kids[i]].visits = 0)
                       => \A i \in 1..Len(kids) : nodes[kids[i]].visits <= 1
                /\ passes <= Len(kids)
                       => Cardinality({ i \in 1..Len(kids) : nodes[kids[i]].visits = 1 })
                              = passes
                /\ passes = Len(kids)
                       => \A i \in 1..Len(kids) : nodes[kids[i]].visits = 1
                /\ passes >= Len(kids)
                       => \A i \in 1..Len(kids) : nodes[kids[i]].visits >= 1

\* C13 (unvisited-first ordering): a turn of select at a node with an
\* unvisited child descends into the first unvisited child in child order,
\* and into the first child of greatest UCB score only when every child is
\* visited; hence in every state, for every node, if some child has visits 0
\* then every child has visits at most 1, and after the first k iterations
\* through a node with k children (the sum of the children's visits, counting
\* the expanding iteration) every child has been visited exactly once.
C13_UnvisitedFirst == [] C13_Ordering /\ [][C13_SelectStep]_vars

\* select has descended into an unvisited child that is not the first child,
\* past a sibling visited once, and elsewhere a node with three or more
\* children has each of them visited exactly once
C13_Witness ==
    /\ pc \in {"select", "expand"}
    /\ node # 0
    /\ nodes[node].visits = 0
    /\ LET kids == nodes[nodes[node].parent].children
       IN  /\ kids[1] # node
           /\ nodes[kids[1]].visits = 1
    /\ \E n \in DOMAIN nodes :
           /\ Len(nodes[n].children) >= 3
           /\ \A i \in 1..Len(nodes[n].children) :
                  nodes[nodes[n].children[i]].visits = 1

\* the exceptions simulate can raise: random.choice of no action, and
\* compute_reward of a state that is not terminal
SimulateErrors ==
    { "IndexError: Cannot choose from an empty sequence",
      "RuntimeError: Error! Compute reward called when game was not finished." }

\* the steps the loop of simulate has made: the cells filled since the state
\* of the node
RolloutSteps ==
    Cardinality(EmptyCells(nodes[node].state[1]))
        - Cardinality(EmptyCells(envs[my_env].board))

C14_Simulating ==
    /\ err \notin SimulateErrors
    /\ pc = "rollout" =>
           /\ state = get_obs(envs[my_env])
           /\ envs[my_env].done <=> Terminal(state[1])
           /\ ~ envs[my_env].done => EmptyCells(envs[my_env].board) # {}
           /\ RolloutSteps >= 0
           /\ RolloutSteps <= Cardinality(EmptyCells(nodes[node].state[1]))
    /\ pc = "backprop" =>
           /\ Terminal(state[1])
           /\ compute_reward(state).err = ""
           /\ reward = compute_reward(state).val

C14_RolloutStep ==
    pc = "rollout" =>
        IF envs[my_env].done
        THEN /\ pc' = "backprop"
             /\ Terminal(state[1])
        ELSE /\ pc' = "rollout"
             /\ \E a \in EmptyCells(envs[my_env].board) :
                    envs'[my_env].board
                        = Place(envs[my_env].board, a, envs[my_env].mark)
             /\ Cardinality(EmptyCells(envs'[my_env].board))
                    = Cardinality(EmptyCells(envs[my_env].board)) - 1

\* C14 (simulation reaches a terminal state): from the node and environment
\* copy select and expand produce, every turn of the loop of simulate places
\* the mover's mark on one empty cell of the copy, the loop has made at most as
\* many turns as the node's state has empty cells, simulate always comes to
\* its end, and the state it gives compute_reward is terminal, also when the
\* loop runs zero times: act never ends with compute_reward's non-terminal
\* error nor with random.choice of no action.
C14_SimulationTerminal ==
    /\ [] C14_Simulating
    /\ [][C14_RolloutStep]_vars
    /\ (pc = "simulate") ~> (pc = "backprop")

\* simulate has ended without a turn of its loop, on a terminal node below the
\* root, after an earlier simulate ended with three turns or more
C14_Witness ==
    /\ pc = "backprop"
    /\ RolloutSteps = 0
    /\ node # 0
    /\ Terminal(nodes[node].state[1])
    /\ \E n \in DOMAIN nodes :
           /\ nodes[n].parent = 0
           /\ nodes[n].visits = 1
           /\ nodes[n].children = << >>
           /\ Cardinality(EmptyCells(nodes[n].state[1])) >= 3

\* the depth of node n: the number of parent links from it to the root
Depth(ns, n) == Len(PathActions(ns, n))

\* the number of marks on a board
MarkCount(board) == Cardinality({ i \in Cells : board[i] # 0 })

C15_DepthBound ==
    pc # "act" =>
        /\ \A n \in DOMAIN nodes :
               /\ Depth(nodes, n) <= Cardinality(EmptyCells(StartBoard))
               /\ Depth(nodes, n) <= Cardinality(Cells)
               /\ MarkCount(nodes[n].state[1])
                      = MarkCount(StartBoard) + Depth(nodes, n)
        /\ pc = "expand" => nodes[node].children = << >>
        /\ pc = "select" => err = ""

C15_Descent ==
    pc = "select" =>
        /\ nodes' = nodes
        /\ IF nodes[node].children = << >>
           THEN /\ pc' = "expand"
                /\ node' = node
           ELSE /\ pc' = "select"
                /\ node' \in DOMAIN nodes
                /\ nodes[node'].parent = node
                /\ \E i \in 1..Len(nodes[node].children) :
                       nodes[node].children[i] = node'
                /\ Depth(nodes, node') = Depth(nodes, node) + 1

\* C15 (selection termination): every turn of the loop of select moves from
\* the current node to one of its existing children, one level deeper, adds no
\* node and raises nothing, and at a node without children select returns that
\* node; the depth of every node is at most the number of empty cells of the
\* starting board, hence at most 9, so that no select makes more turns than
\* that; and the state of a node at depth d has exactly d more marks than the
\* state of the root.
C15_SelectionTermination == [] C15_DepthBound /\ [][C15_Descent]_vars

\* select has returned a node two levels below the root that it reached by
\* descending twice in this iteration
C15_Witness ==
    /\ pc = "expand"
    /\ Depth(nodes, node) >= 2
    /\ nodes[node].visits = 0
    /\ nodes[node].children = << >>
    /\ nodes[nodes[node].parent].visits >= 1

\* how many times node id n occurs in a sequence of node ids
Occurrences(kids, n) == Cardinality({ i \in 1..Len(kids) : kids[i] = n })

\* the root is reached from node n by at most k parent links
RECURSIVE RootWithin(_, _, _)
RootWithin(ns, n, k) ==
    \/ ns[n].parent = None
    \/ /\ k > 0
       /\ ns[n].parent \in DOMAIN ns
       /\ RootWithin(ns, ns[n].parent, k - 1)

\* seq p is the beginning of seq q
IsPrefix(p, q) ==
    /\ Len(p) <= Len(q)
    /\ \A i \in 1..Len(p) : p[i] = q[i]

C16_Shape ==
    pc # "act" =>
        /\ { n \in DOMAIN nodes : nodes[n].parent = None } = {0}
        /\ nodes[0].action = None
        /\ DOMAIN nodes = 0..(NODE_ID_COUNTER - 1)
        /\ \A n \in DOMAIN nodes :
               /\ \A i \in 1..Len(nodes[n].children) :
                      nodes[n].children[i] \in DOMAIN nodes \ {0}
               /\ RootWithin(nodes, n, Cardinality(DOMAIN nodes))
        /\ \A n \in DOMAIN nodes \ {0} :
               /\ nodes[n].action # None
               /\ nodes[n].action \in Cells
               /\ nodes[n].parent \in DOMAIN nodes
               /\ \A m \in DOMAIN nodes :
                      Occurrences(nodes[m].children, n)
                          = IF m = nodes[n].parent THEN 1 ELSE 0

C16_Growth ==
    pc # "act" =>
        /\ DOMAIN nodes \subseteq DOMAIN nodes'
        /\ \A n \in DOMAIN nodes :
               /\ nodes'[n].parent = nodes[n].parent
               /\ nodes'[n].action = nodes[n].action
               /\ nodes'[n].state = nodes[n].state
               /\ IsPrefix(nodes[n].children, nodes'[n].children)

\* C16 (tree shape): once act has created the root, in every state exactly
\* one node has no parent, node 0, the root, whose action is None; every other
\* node has an action that is not None and occurs exactly once in its
\* parent's children and in no other node's children; parent links lead from
\* every node to the root within as many steps as there are nodes; and no
\* step of act removes a node, changes a node's parent, action or state, or
\* removes or reorders children.
C16_TreeShape == [] C16_Shape /\ [][C16_Growth]_vars

\* act has returned leaving a tree of three levels in which two nodes below
\* the root have children
C16_Witness ==
    /\ pc = "done"
    /\ \E n, m \in DOMAIN nodes \ {0} :
           /\ n # m
           /\ nodes[n].children # << >>
           /\ nodes[m].children # << >>
           /\ nodes[n].parent = 0
    /\ Cardinality(DOMAIN nodes) >= 8

\* between two iterations, or after the last
IterationBoundary == pc \in {"loop", "done", "raised"} /\ err \notin SimulateErrors

C17_Bounds ==
    pc # "act" =>
        /\ \A n \in DOMAIN nodes :
               /\ nodes[n].visits >= 0
               /\ nodes[n].value >= 0
        /\ IterationBoundary =>
               \A n \in DOMAIN nodes :
                   /\ nodes[n].value <= RewardWon * nodes[n].visits
                   /\ nodes[n].children # << >> => nodes[n].visits >= 1

C17_Monotone ==
    /\ \A n \in DOMAIN nodes' \ DOMAIN nodes :
           /\ nodes'[n].visits = 0
           /\ nodes'[n].value = 0
    /\ pc # "act" =>
           \A n \in DOMAIN nodes :
               /\ nodes'[n].visits >= nodes[n].visits
               /\ nodes'[n].value >= nodes[n].value
               /\ nodes'[n].visits - nodes[n].visits \in {0, 1}
               /\ nodes'[n].value - nodes[n].value
                      \in {RewardLost, RewardTie, RewardWon}
               /\ nodes'[n].visits = nodes[n].visits
                      => nodes'[n].value = nodes[n].value

\* C17 (statistics bounds): every node is created with visits 0 and value 0;
\* no step of act decreases the visits or the value of a node, and a step
\* that changes them adds exactly 1 visit and a reward of 0, 0.5 or 1 (here
\* 0, 1 or 2 halves); between iterations and at the end 0 <= value <= visits
\* holds for every node (value in halves at most twice the visits), and every
\* node that has children has visits of at least 1.
C17_StatisticsBounds == [] C17_Bounds /\ [][C17_Monotone]_vars

\* between iterations a node with children has value equal to its visits and
\* another node has been visited and has value 0
C17_Witness ==
    /\ pc = "loop"
    /\ iter >= 3
    /\ \E n, m \in DOMAIN nodes :
           /\ nodes[n].children # << >>
           /\ nodes[n].visits >= 2
           /\ nodes[n].value = RewardWon * nodes[n].visits
           /\ nodes[m].visits >= 1
           /\ nodes[m].value = 0


(***************************************************************************)
(* play(num_games) of run.py: games between TicTacJoe as X and TicTacPro   *)
(* as O (specification SpecPlay)                                           *)
(***************************************************************************)

\* most games play is asked for
MaxGames == 2

\* TicTacToeEnv(): __init__ sets the start mark "O" and resets
TicTacToeEnv ==
    [ board |-> [i \in Cells |-> 0], mark |-> "O", done |-> FALSE,
      start_mark |-> "O" ]

\* TicTacToeEnv.set_start_mark(mark)
set_start_mark(e, m) == [e EXCEPT !.start_mark = m]

\* TicTacToeEnv.reset(): an empty board, the start mark to move, not done
reset(e) ==
    [e EXCEPT !.board = [i \in Cells |-> 0], !.mark = e.start_mark, !.done = FALSE]

\* the reward TicTacToeEnv.step(action) returns: 0 once done and while no one
\* has won, else 1 when the mover is "O" and -1 when the mover is "X"
step_reward(e, a) ==
    IF e.done THEN 0
    ELSE IF check_game_status([e.board EXCEPT ![a] = tocode(e.mark)]) \in {1, 2}
    THEN (IF e.mark = "O" THEN 1 ELSE -1)
    ELSE 0

\* copy.copy(env): a new environment object with the same attributes (its
\* board is the very list of the original; no act writes to its argument)
copy(heap, h) ==
    LET new == 2
    IN  [ handle |-> new, heap |-> (new :> heap[h]) @@ heap ]

\* line 17: the class playing each mark
players == [ X |-> "TicTacJoe", O |-> "TicTacPro" ]

\* line 60: the agents of a game
agents ==
    << [ name |-> players["X"], mark |-> "X" ],
       [ name |-> players["O"], mark |-> "O" ] >>

\* agent_by_mark(agents, mark): the first agent of the list with that mark
agent_by_mark(ags, m) ==
    ags[CHOOSE i \in 1..Len(ags) :
            /\ ags[i].mark = m
            /\ \A j \in 1..(i - 1) : ags[j].mark # m]

\* TicTacPro(mark).act(state, my_env) with the default n_iter of 10000, as
\* far as play depends on it: on an environment that is not done the root gets
\* one child per available action in the first iteration and act returns the
\* action of a root child (which one the random rollouts decide); on a done
\* environment the root stays childless and max raises
TicTacPro_act(st, e) ==
    IF e.done \/ available_actions(e) = << >>
    THEN { [ err |-> "ValueError: max() arg is an empty sequence", val |-> None ] }
    ELSE { [ err |-> "", val |-> available_actions(e)[k] ]
           : k \in 1..Len(available_actions(e)) }

\* lines 20-44: play is called; random.choice picks the first start mark
InitPlay ==
    /\ num_games \in 0..MaxGames
    /\ play_start_mark \in Marks
    /\ winners = << >>
    /\ games = 0
    /\ play_mark = None
    /\ play_action = None
    /\ envs = << >>
    /\ state = NoState
    /\ reward = None
    /\ pc = "for"
    /\ self_mark = "X"
    /\ my_env = None
    /\ err = ""
    /\ ret = None
    /\ n_iter = 10000
    /\ c = 50
    /\ NODE_ID_COUNTER = 0
    /\ nodes = << >>
    /\ node = None
    /\ iter = 0

\* lines 52-60: the next game: a new environment with the start mark set,
\* reset
ForNext ==
    /\ pc = "for"
    /\ games < num_games
    /\ LET e == reset(set_start_mark(TicTacToeEnv, play_start_mark))
       IN  /\ envs' = (env :> e)
           /\ state' = get_obs(e)
    /\ my_env' = None
    /\ pc' = "while"
    /\ UNCHANGED <<self_mark, n_iter, c, NODE_ID_COUNTER, nodes, node, iter,
                   reward, ret, err, num_games, play_start_mark, winners,
                   games, play_mark, play_action>>

\* lines 63-67: the game is not over: the agent of the mark to move
WhileNext ==
    /\ pc = "while"
    /\ ~ envs[env].done
    /\ play_mark' = state[2]
    /\ self_mark' = agent_by_mark(agents, state[2]).mark
    /\ pc' = "agent.act"
    /\ UNCHANGED <<n_iter, c, envs, my_env, NODE_ID_COUNTER, nodes, node, iter,
                   state, reward, ret, err, num_games, play_start_mark,
                   winners, games, play_action>>

\* line 68: action = agent.act(state, copy(env))
AgentAct ==
    /\ pc = "agent.act"
    /\ LET cp == copy(envs, env)
           agent == agent_by_mark(agents, play_mark)
       IN  /\ envs' = cp.heap
           /\ my_env' = cp.handle
           /\ \E r \in IF agent.name = "TicTacJoe"
                         THEN TicTacJoe_act(state, cp.heap[cp.handle])
                         ELSE TicTacPro_act(state, cp.heap[cp.handle]) :
                  /\ err' = r.err
                  /\ play_action' = r.val
                  /\ pc' = IF r.err # "" THEN "raised" ELSE "env.step"
    /\ UNCHANGED <<self_mark, n_iter, c, NODE_ID_COUNTER, nodes, node, iter,
                   state, reward, ret, num_games, play_start_mark, winners,
                   games, play_mark>>

\* line 69: state, reward, _, _ = env.step(action)
EnvStep ==
    /\ pc = "env.step"
    /\ envs' = [envs EXCEPT ![env] = step(@, play_action)]
    /\ state' = get_obs(step(envs[env], play_action))
    /\ reward' = step_reward(envs[env], play_action)
    /\ pc' = "while"
    /\ UNCHANGED <<self_mark, n_iter, c, my_env, NODE_ID_COUNTER, nodes, node,
                   iter, ret, err, num_games, play_start_mark, winners, games,
                   play_mark, play_action>>

\* the end of a game without the rotation of the start mark
GameEnd_no_rotate ==
    /\ pc = "while"
    /\ envs[env].done
    /\ winners' = Append(winners, reward)
    /\ games' = games + 1
    /\ pc' = "for"
    /\ UNCHANGED <<self_mark, n_iter, c, envs, my_env, NODE_ID_COUNTER, nodes,
                   node, iter, state, reward, ret, err, num_games,
                   play_start_mark, play_mark, play_action>>

\* lines 63 and 73-81: the game is over: record the result, rotate the start
GameEnd ==
    /\ pc = "while"
    /\ envs[env].done
    /\ winners' = Append(winners, reward)
    /\ play_start_mark' = next_mark(play_start_mark)
    /\ games' = games + 1
    /\ pc' = "for"
    /\ UNCHANGED <<self_mark, n_iter, c, envs, my_env, NODE_ID_COUNTER, nodes,
                   node, iter, state, reward, ret, err, num_games, play_mark,
                   play_action>>

\* lines 83-88: all games played: the tally; the shares divide by the number
\* of results
PlayEnd ==
    /\ pc = "for"
    /\ games >= num_games
    /\ IF Len(winners) = 0
       THEN /\ err' = "ZeroDivisionError: division by zero"
            /\ pc' = "raised"
       ELSE /\ pc' = "returned"
            /\ UNCHANGED err
    /\ UNCHANGED <<self_mark, n_iter, c, envs, my_env, NODE_ID_COUNTER, nodes,
                   node, iter, state, reward, ret, num_games, play_start_mark,
                   winners, games, play_mark, play_action>>

NextPlay ==
    \/ ForNext
    \/ WhileNext
    \/ AgentAct
    \/ EnvStep
    \/ GameEnd
    \/ PlayEnd

SpecPlay == InitPlay /\ [][NextPlay]_vars

(***************************************************************************)
(* Properties of play (specification SpecPlay)                             *)
(***************************************************************************)

\* a game is being played
InGame == pc \in {"while", "agent.act", "env.step"}

\* the mark to move after a number of moves of a game begun by mark first
MarkAfter(first, moves) == IF moves % 2 = 0 THEN first ELSE OtherMark(first)

\* the result of a finished game as play records it: -1 when X has won, 1
\* when O has won, 0 for a tie
ResultOf(board) ==
    IF Won(board, "X") THEN -1 ELSE IF Won(board, "O") THEN 1 ELSE 0

C18_Turns ==
    /\ Len(winners) = games
    /\ games <= num_games
    /\ pc = "raised" => num_games = 0
    /\ InGame =>
           /\ state = get_obs(envs[env])
           /\ envs[env].start_mark = play_start_mark
           /\ envs[env].mark
                  = MarkAfter(play_start_mark, MarkCount(envs[env].board))
           /\ envs[env].done <=> Terminal(envs[env].board)
           /\ MarkCount(envs[env].board) <= 9
    /\ pc \in {"agent.act", "env.step"} =>
           /\ ~ envs[env].done
           /\ play_mark = envs[env].mark
           /\ self_mark = envs[env].mark
           /\ agent_by_mark(agents, play_mark).mark = envs[env].mark
    /\ pc = "env.step" => play_action \in EmptyCells(envs[env].board)
    /\ (pc \in {"for", "returned"} /\ games >= 1) =>
           /\ Terminal(envs[env].board)
           /\ winners[games] = ResultOf(envs[env].board)

C18_Moves ==
    /\ (pc = "for" /\ pc' = "while") =>
           /\ \A i \in Cells : envs'[env].board[i] = 0
           /\ envs'[env].mark = play_start_mark
           /\ ~ envs'[env].done
           /\ state' = << envs'[env].board, play_start_mark >>
           /\ games >= 1 => envs'[env].start_mark = OtherMark(envs[env].start_mark)
    /\ pc = "while" =>
           /\ envs'[env] = envs[env]
           /\ pc' = "for" <=> envs[env].done
           /\ pc' = "for" =>
                  /\ winners' = Append(winners, reward)
                  /\ games' = games + 1
                  /\ play_start_mark' = OtherMark(play_start_mark)
    /\ pc = "agent.act" => envs'[env] = envs[env]
    /\ pc = "env.step" =>
           /\ envs'[env].board
                  = Place(envs[env].board, play_action, play_mark)
           /\ envs'[env].mark = OtherMark(envs[env].mark)
           /\ MarkCount(envs'[env].board) = MarkCount(envs[env].board) + 1
    /\ (pc = "for" /\ games >= 1 /\ pc' # "while") => envs'[env] = envs[env]
    /\ (pc # "while" \/ pc' # "for") =>
           /\ winners' = winners
           /\ games' = games
           /\ play_start_mark' = play_start_mark

\* C18 (game harness turn order): every game of play starts from an empty
\* board with the start mark to move, and the start mark of a game is the
\* opposite of the start mark of the game before; in a game the agent asked
\* to act has the mark to move, the mark to move alternates with every move,
\* the environment of the game changes only by env.step placing the mark to
\* move on the empty cell the agent returned, the game goes on exactly while
\* the environment is not done and takes at most 9 moves, and when it ends
\* exactly one result is appended to winners, the result of the final board.
C18_TurnOrder == [] C18_Turns /\ [][C18_Moves]_vars

\* two games have been played: the first won by X, the second, begun by the
\* other mark, a tie on a full board
C18_Witness ==
    /\ pc = "for"
    /\ games = 2
    /\ winners = << -1, 0 >>
    /\ MarkCount(envs[env].board) = 9
    /\ envs[env].start_mark = OtherMark(play_start_mark)

====
